---- MODULE Spec2Model ----
(***************************************************************************)
(* Model of source/utilities.py: the solver class InterDivConstraint       *)
(* (construction of the state indicators, _min_objective, iterate and      *)
(* find_ξ).  Greek names of the source are spelled out in ASCII:           *)
(* ξ -> xi, ϵ -> eps, λ -> lam.                                            *)
(*                                                                         *)
(* Numbers.  scipy's minimiser, and the exp/log arithmetic of the          *)
(* post-convergence block of iterate, are outside the program; their       *)
(* results are drawn from small sets.  model.fun is a base-2 exponent, so  *)
(* that v = exp(model.fun) is a power of two and v / v[0] is exact.  e,    *)
(* error and self.tol are held in units of 1/EDen; ξ and the bisection     *)
(* bounds in units of 1/XiOne, so that every midpoint is exact.            *)
(***************************************************************************)
EXTENDS Integers, Sequences, FiniteSets, TLC

\* ------------------------------------------------------------------ bounds
NStates == 2
MaxFun == 1
MaxSweeps == 2
MaxCalls == 2
MaxIter == 2
MaxRE == 2
MaxX == 2
MaxObs == 4
MaxVal == 3
MaxDataStates == 3

\* ------------------------------------------------------- values and scales
\* IEEE not-a-number, as np.exp / the division of line 162 propagate it
NaN == -1
\* a placeholder field (lines 80-83), or an attribute not yet assigned
None == -2
NoneVec == << >>

n_f == 4
Methods == <<"L-BFGS-B", "BFGS", "CG">>

EDen == 2 ^ MaxFun
XiOne == 2 ^ (MaxIter + 1)
Xi100 == 100 * XiOne

Abs(x) == IF x < 0 THEN -x ELSE x

\* comparisons of floats: every comparison with NaN is False
Gt(a, b) == a # NaN /\ b # NaN /\ a > b
Lt(a, b) == a # NaN /\ b # NaN /\ a < b

\* np.exp(model.fun), model.fun a base-2 exponent
Exp(fun) == IF fun = NaN THEN NaN ELSE 2 ^ fun

\* np.ones(n) in units of 1/EDen, np.zeros(n)
Ones(n) == [i \in 1..n |-> EDen]
Zeros(n) == [i \in 1..n |-> 0]

\* v / v[0], in units of 1/EDen
Normalise(v) ==
    [i \in DOMAIN v |->
        IF v[i] = NaN \/ v[1] = NaN THEN NaN ELSE (EDen * v[i]) \div v[1]]

RECURSIVE MaxOver(_, _)
MaxOver(f, n) ==
    IF n = 1 THEN f[1]
    ELSE LET r == MaxOver(f, n - 1)
         IN  IF r = NaN \/ f[n] = NaN THEN NaN
             ELSE IF f[n] > r THEN f[n] ELSE r

\* np.max(np.abs(e - e_old))
MaxAbsDiff(e, e_old) ==
    MaxOver([i \in DOMAIN e |->
                IF e[i] = NaN \/ e_old[i] = NaN THEN NaN
                ELSE Abs(e[i] - e_old[i])],
            Len(e))

\* ------------------------------------------------------------------ state
VARIABLES
    self,         \* the solver instance: g, tol, xi, lower, state, e, eps
    loc,          \* the locals of the running call of iterate
    min,          \* the running call of _min_objective: method, model, warning
    result,       \* the dictionary the last call of iterate returned
    fnd,          \* the arguments and locals of the running call of find_xi
    pc,           \* the position of the single thread of control
    caller,       \* who called iterate: "top" or "find"
    exc,          \* the exception the last call raised, "none" if none
    ncalls,       \* the number of top-level calls made so far
    fresh_self,   \* a fresh instance (same g, tol) making the same call of
    fresh_loc,    \*   iterate in lockstep, and the locals of that call
    fresh_result, \* what that call returned
    diverged,     \* whether the two calls read different values
    env,          \* what the numerical libraries may return in this run
    pd_lag,       \* the column d.p of the data set
    n_states,     \* the constructor's argument n_states, for the data set
    pd_lag_indicator, \* self.pd_lag_indicator
    pd_indicator,     \* self.pd_indicator
    P,                \* the counts behind the empirical transition matrix
    dpc               \* the position of the construction

solver_vars == <<self, loc, min, result, fnd, pc, caller, exc, ncalls,
                 fresh_self, fresh_loc, fresh_result, diverged, env>>
data_vars == <<pd_lag, n_states, pd_lag_indicator, pd_indicator, P, dpc>>
vars == <<self, loc, min, result, fnd, pc, caller, exc, ncalls,
          fresh_self, fresh_loc, fresh_result, diverged, env,
          pd_lag, n_states, pd_lag_indicator, pd_indicator, P, dpc>>

\* ----------------------------------------------------------- value sets
Lowers == {"True", "False"}
\* self.tol, in units of 1/EDen: 1/EDen, and 1.0 (the initial error)
SolverTols == {1, EDen}
\* the moment function: unset, or set by the caller (lines 306, 371)
GVals == {None, 1}
\* what scipy's minimize may return: success, fun, x
FunVals == (0..MaxFun) \cup {NaN}
Outcomes == [success : BOOLEAN, fun : FunVals, x : {1}]
\* what the post-convergence block may compute as RE
REVals == (1..MaxRE) \cup {NaN}
\* the arguments (ξ, lower) a caller passes to iterate
IterateArgs == {<<XiOne \div 2, "True">>, <<XiOne, "False">>}
\* find_xi's arguments
XTargets == 1..MaxX
FindTols == {0, 1}
MaxIters == 0..MaxIter
UpperBounds == {XiOne \div 2, XiOne, Xi100}

NoModel == [success |-> FALSE, fun |-> None, x |-> None]
NoMin == [m |-> 0, method |-> "none", x0 |-> NoneVec, model |-> NoModel,
          warned |-> FALSE]
NoResult == [eps |-> None, e |-> NoneVec, lam |-> NoneVec, count |-> None,
             xi |-> None, RE |-> None]
NoLocals == [xi |-> None, lower |-> "unset", error |-> None, count |-> None,
             v |-> NoneVec, lam |-> NoneVec, e_old |-> NoneVec, k |-> 0,
             solves |-> 0, swept |-> << >>]
NoFind == [x |-> None, lower |-> "unset", tol |-> None, max_iter |-> None,
           ub0 |-> None, phase |-> "none", i |-> None, xi |-> None,
           lower_bound |-> None, upper_bound |-> None, count |-> None,
           min_RE |-> None, RE |-> None, inits |-> 0, trials |-> 0,
           fails |-> 0, met |-> FALSE, warned |-> 0, last_xi |-> None,
           ret |-> None]

\* __init__, lines 79-87: the placeholders; xi and lower are not attributes yet
NewSolver(g, tol) ==
    [g |-> g, tol |-> tol, xi |-> None, lower |-> "unset", state |-> None,
     e |-> NoneVec, eps |-> None]

\* np.linalg.solve on a singular system (lines 186, 197)
LinAlgError == -3

\* What scipy's minimize may return for one attempt: any outcome, or (in the
\* runs that explore find_ξ) success or failure with one objective value.
MinimizeOutcomes(en) ==
    IF en.minimize = "any" THEN Outcomes ELSE [success : BOOLEAN, fun : {0}, x : {1}]

\* the relative entropy of the post-convergence block, lines 166-205: any
\* value, or the value a fixed function of xi gives (nonincreasing in xi:
\* RE grows as xi decreases)
REof(en, xi) ==
    1 + (IF xi < en.t1 THEN 1 ELSE 0) + (IF xi < en.t2 THEN 1 ELSE 0)
PostOutcomes(en, xi) ==
    IF en.RE = "any" THEN REVals \cup {LinAlgError} ELSE {REof(en, xi)}

\* --------------------------------------------------------- _min_objective
\* line 113: every attempt starts from np.ones(self.n_f)
StartVector == [i \in 1..n_f |-> 1]

\* mutant: the loop over the methods without its break
MinimizeStopsAtEnd(m, out) == m = Len(Methods)

\* lines 118-119, and the end of the list of methods
MinimizeStops(m, out) == out.success \/ m = Len(Methods)

\* lines 120-121: the warning is printed when the kept model did not succeed
WarningPrinted(model) == model.success = FALSE

\* lines 111-121: the m-th pass of the loop over the methods, minimize
\* returning out; when the loop ends with this pass, the check for the warning
Attempt(m, out) ==
    [m |-> m, method |-> Methods[m], x0 |-> StartVector, model |-> out,
     warned |-> MinimizeStops(m, out) /\ WarningPrinted(out)]

\* what _objective and _objective_gradient read (lines 93-96, 102-105), and
\* what minimize is given (lines 113-117)
ObjectiveReads(s) == <<s.g, s.lower, s.state, s.e, s.xi, s.tol>>

\* ---------------------------------------------------------------- iterate
\* the call iterate(xi, lower): its arguments, its locals not yet bound
CallLocals(xi, lower) == [NoLocals EXCEPT !.xi = xi, !.lower = lower]

\* mutant: ξ and lower assigned before self.g is checked
IterateFixFirst(s, l) == [s EXCEPT !.xi = l.xi, !.lower = l.lower]

\* lines 136-141: the check of self.g, then self.ξ and self.lower are fixed
IterateFix(s, l) ==
    IF s.g = None THEN s ELSE [s EXCEPT !.xi = l.xi, !.lower = l.lower]

\* mutant: the initial error 0. instead of 1.
IterateLocalsZeroError(l) == [l EXCEPT !.error = 0, !.count = 0]

\* lines 144-146: error = 1., count = 0
IterateLocals(l) == [l EXCEPT !.error = EDen, !.count = 0]

\* line 148: while error > self.tol
WhileTest(s, l) == Gt(l.error, s.tol)

\* mutant: the initial guess made only when the instance has no e yet
SweepSelfWarmStart(s, l) ==
    IF l.count = 0 /\ s.e = NoneVec THEN [s EXCEPT !.e = Ones(NStates)] ELSE s

\* lines 149-151: the initial guess for e, on the first sweep only
SweepSelf(s, l) == IF l.count = 0 THEN [s EXCEPT !.e = Ones(NStates)] ELSE s

\* lines 152-156: the placeholders for v and λ, on the first sweep only; the
\* for loop starts at state 1
SweepLocals(l) ==
    IF l.count = 0
    THEN [l EXCEPT !.v = Zeros(NStates), !.lam = Zeros(NStates), !.k = 1,
                   !.swept = << >>]
    ELSE [l EXCEPT !.k = 1, !.swept = << >>]

\* line 157: self.state = k
SetState(s, l) == [s EXCEPT !.state = l.k]

\* lines 125-127 and 158: v[self.state-1] = exp(model.fun), the block of λ;
\* s is the instance during the solve
Store(l, s, model) ==
    [l EXCEPT !.v[s.state] = Exp(model.fun), !.lam[s.state] = model.x,
              !.k = @ + 1, !.solves = @ + 1,
              !.swept = Append(@, [state |-> s.state, e |-> s.e])]

\* lines 160-164
UpdateSelf(s, l) == [s EXCEPT !.eps = l.v[1], !.e = Normalise(l.v)]
UpdateLocals(s, l) ==
    [l EXCEPT !.e_old = s.e, !.error = MaxAbsDiff(Normalise(l.v), s.e),
              !.count = @ + 1]

\* what the post-convergence block reads (lines 167-227)
PostReads(s, l) == <<s.g, s.lower, s.xi, s.e, s.eps, l.lam, l.count>>

\* lines 229-248: the entries of the result that the model keeps
MakeResult(s, l, RE) ==
    [eps |-> s.eps, e |-> s.e, lam |-> l.lam, count |-> l.count,
     xi |-> s.xi, RE |-> RE]

\* the fresh instance takes the same step when it read the same values
FreshStep(agree, fs, fl) ==
    /\ diverged' = (diverged \/ ~agree)
    /\ IF diverged \/ ~agree
       THEN UNCHANGED <<fresh_self, fresh_loc>>
       ELSE fresh_self' = fs /\ fresh_loc' = fl

\* a caller sets or clears solver.g (lines 80, 306, 371)
SetG ==
    /\ pc = "idle"
    /\ \E g \in GVals \ {self.g} : self' = [self EXCEPT !.g = g]
    /\ UNCHANGED <<loc, min, result, fnd, pc, caller, exc, ncalls,
                   fresh_self, fresh_loc, fresh_result, diverged, env>>
    /\ UNCHANGED data_vars

\* a caller calls iterate(xi, lower) (lines 312, 377)
UserIterate ==
    /\ pc = "idle"
    /\ ncalls < MaxCalls
    /\ \E a \in IterateArgs : loc' = CallLocals(a[1], a[2])
    /\ pc' = "iterate"
    /\ caller' = "top"
    /\ exc' = "none"
    /\ ncalls' = ncalls + 1
    /\ fnd' = NoFind
    /\ result' = NoResult
    /\ min' = NoMin
    /\ UNCHANGED <<self, fresh_self, fresh_loc, fresh_result, diverged, env>>
    /\ UNCHANGED data_vars

\* iterate, lines 130-146
IterateEnter ==
    /\ pc = "iterate"
    /\ self' = IterateFix(self, loc)
    /\ fresh_self' = IterateFix(NewSolver(self.g, self.tol), loc)
    /\ diverged' = FALSE
    /\ fresh_result' = NoResult
    /\ IF self.g = None
       THEN /\ pc' = "idle"
            /\ exc' = "Exception"
            /\ UNCHANGED loc
            /\ fresh_loc' = loc
       ELSE /\ pc' = "while"
            /\ loc' = IterateLocals(loc)
            /\ fresh_loc' = IterateLocals(loc)
            /\ UNCHANGED exc
    /\ UNCHANGED <<min, result, fnd, caller, ncalls, env>>
    /\ UNCHANGED data_vars

\* iterate, lines 148-156: the loop test and the start of a sweep
IterateWhile ==
    /\ pc = "while"
    /\ IF WhileTest(self, loc)
       THEN /\ loc.count < MaxSweeps
            /\ self' = SweepSelf(self, loc)
            /\ loc' = SweepLocals(loc)
            /\ pc' = "for"
            /\ FreshStep(WhileTest(fresh_self, fresh_loc),
                         SweepSelf(fresh_self, fresh_loc),
                         SweepLocals(fresh_loc))
       ELSE /\ pc' = "post"
            /\ UNCHANGED <<self, loc>>
            /\ FreshStep(~WhileTest(fresh_self, fresh_loc), fresh_self, fresh_loc)
    /\ UNCHANGED <<min, result, fnd, caller, exc, ncalls, fresh_result, env>>
    /\ UNCHANGED data_vars

\* iterate, lines 156-158, and _min_objective, lines 107-117: self.state is
\* set and the first method is tried for the next state of the sweep
SweepSolve ==
    /\ pc = "for"
    /\ loc.k <= NStates
    /\ self' = SetState(self, loc)
    /\ \E out \in MinimizeOutcomes(env) : min' = Attempt(1, out)
    /\ pc' = "minimize"
    /\ FreshStep(ObjectiveReads(SetState(fresh_self, fresh_loc))
                    = ObjectiveReads(self'),
                 SetState(fresh_self, fresh_loc), fresh_loc)
    /\ UNCHANGED <<loc, result, fnd, caller, exc, ncalls, fresh_result, env>>
    /\ UNCHANGED data_vars

\* _min_objective, lines 111-121: the loop goes on to the next method
MinimizeNext ==
    /\ pc = "minimize"
    /\ ~MinimizeStops(min.m, min.model)
    /\ \E out \in MinimizeOutcomes(env) : min' = Attempt(min.m + 1, out)
    /\ UNCHANGED <<self, loc, result, fnd, pc, caller, exc, ncalls,
                   fresh_self, fresh_loc, fresh_result, diverged, env>>
    /\ UNCHANGED data_vars

\* _min_objective returns (lines 125-127) and line 158 stores v and λ
SweepStore ==
    /\ pc = "minimize"
    /\ MinimizeStops(min.m, min.model)
    /\ loc' = Store(loc, self, min.model)
    /\ min' = NoMin
    /\ pc' = "for"
    /\ FreshStep(TRUE, fresh_self, Store(fresh_loc, fresh_self, min.model))
    /\ UNCHANGED <<self, result, fnd, caller, exc, ncalls, fresh_result, env>>
    /\ UNCHANGED data_vars

\* iterate, lines 159-164: e and ϵ are replaced after the whole sweep
IterateUpdate ==
    /\ pc = "for"
    /\ loc.k > NStates
    /\ self' = UpdateSelf(self, loc)
    /\ loc' = UpdateLocals(self, loc)
    /\ pc' = "while"
    /\ FreshStep(TRUE, UpdateSelf(fresh_self, fresh_loc),
                 UpdateLocals(fresh_self, fresh_loc))
    /\ UNCHANGED <<min, result, fnd, caller, exc, ncalls, fresh_result, env>>
    /\ UNCHANGED data_vars

\* iterate, lines 166-250: the post-convergence block and the return.  With
\* no sweep made, line 168 divides by self.ϵ = None, or reads the unbound λ.
IteratePost ==
    /\ pc = "post"
    /\ IF loc.count = 0
       THEN /\ exc' = IF self.eps = None THEN "TypeError" ELSE "UnboundLocalError"
            /\ pc' = "idle"
            /\ UNCHANGED <<result, fresh_result, diverged>>
       ELSE \E out \in PostOutcomes(env, self.xi) :
               IF out = LinAlgError
               THEN /\ exc' = "LinAlgError"
                    /\ pc' = "idle"
                    /\ UNCHANGED <<result, fresh_result, diverged>>
               ELSE /\ result' = MakeResult(self, loc, out)
                    /\ diverged' =
                          (diverged \/ PostReads(fresh_self, fresh_loc) # PostReads(self, loc))
                    /\ fresh_result' =
                          IF diverged' THEN fresh_result
                          ELSE MakeResult(fresh_self, fresh_loc, out)
                    /\ pc' = IF caller = "top" THEN "idle" ELSE "find_resume"
                    /\ UNCHANGED exc
    /\ UNCHANGED <<self, loc, min, fnd, caller, ncalls, fresh_self, fresh_loc, env>>
    /\ UNCHANGED data_vars

\* ---------------------------------------------------------------- find_xi
\* line 275: error = RE/min_RE - x_min_RE, held as error * min_RE (min_RE > 0)
\* when it is a number
ErrorIsNaN(RE, min_RE) == RE = NaN \/ min_RE = NaN
ErrorNum(RE, min_RE, x) == RE - x * min_RE

\* line 276: np.abs(error) < tol
TolMet(RE, min_RE, x, tol) ==
    ~ErrorIsNaN(RE, min_RE) /\ Abs(ErrorNum(RE, min_RE, x)) < tol * min_RE

\* mutant: the sign test reversed
ErrorNegativeFlipped(RE, min_RE, x) ==
    ~ErrorIsNaN(RE, min_RE) /\ ErrorNum(RE, min_RE, x) > 0

\* line 279: error < 0.
ErrorNegative(RE, min_RE, x) ==
    ~ErrorIsNaN(RE, min_RE) /\ ErrorNum(RE, min_RE, x) < 0

\* mutant: the search started at ξ = 100. instead of 1.
FirstTrialAtUpper(f) ==
    IF f.i = 0
    THEN [f EXCEPT !.xi = Xi100, !.lower_bound = 0, !.upper_bound = f.upper_bound]
    ELSE f

\* lines 265-269: the first pass of the loop sets ξ and the bounds
FirstTrial(f) ==
    IF f.i = 0
    THEN [f EXCEPT !.xi = XiOne, !.lower_bound = 0, !.upper_bound = f.upper_bound]
    ELSE f

\* mutant: ξ moved first, the bound set to the moved ξ
BisectSwapped(f, negative) ==
    IF negative
    THEN [f EXCEPT !.xi = (f.lower_bound + f.xi) \div 2,
                   !.upper_bound = (f.lower_bound + f.xi) \div 2]
    ELSE [f EXCEPT !.xi = (f.xi + f.upper_bound) \div 2,
                   !.lower_bound = (f.xi + f.upper_bound) \div 2]

\* lines 279-284: one bound moves to ξ, and ξ to the middle of the bounds
Bisect(f, negative) ==
    IF negative
    THEN [f EXCEPT !.upper_bound = f.xi, !.xi = (f.lower_bound + f.xi) \div 2]
    ELSE [f EXCEPT !.lower_bound = f.xi, !.xi = (f.xi + f.upper_bound) \div 2]

\* mutant: the cap tested against the count before its increment
WarnNowEarly(count, max_iter) == count = max_iter - 1

\* line 287: count == max_iter, count already incremented
WarnNow(count, max_iter) == count = max_iter

\* a caller calls find_ξ (lines 309, 374); lines 253-258: the call
\* iterate(100., lower) that gives min_RE
UserFind ==
    /\ pc = "idle"
    /\ ncalls < MaxCalls
    /\ \E x \in XTargets, lower \in Lowers, tol \in FindTols,
          max_iter \in MaxIters, upper_bound \in UpperBounds :
          /\ fnd' = [NoFind EXCEPT !.x = x, !.lower = lower, !.tol = tol,
                                   !.max_iter = max_iter, !.ub0 = upper_bound,
                                   !.upper_bound = upper_bound,
                                   !.phase = "min_RE", !.inits = 1,
                                   !.last_xi = Xi100]
          /\ loc' = CallLocals(Xi100, lower)
    /\ pc' = "iterate"
    /\ caller' = "find"
    /\ exc' = "none"
    /\ ncalls' = ncalls + 1
    /\ result' = NoResult
    /\ min' = NoMin
    /\ UNCHANGED <<self, fresh_self, fresh_loc, fresh_result, diverged, env>>
    /\ UNCHANGED data_vars

\* find_ξ, lines 259-262: min_RE, count = 0, and the loop starts
FindMinRE ==
    /\ pc = "find_resume"
    /\ fnd.phase = "min_RE"
    /\ fnd' = [fnd EXCEPT !.min_RE = result.RE, !.count = 0, !.i = 0,
                          !.phase = "for"]
    /\ pc' = "find_for"
    /\ UNCHANGED <<self, loc, min, result, caller, exc, ncalls, fresh_self,
                   fresh_loc, fresh_result, diverged, env>>
    /\ UNCHANGED data_vars

\* find_ξ, lines 263-271: the next trial; line 290 when the loop is exhausted
\* (with max_iter = 0 the name ξ is unbound there)
FindFor ==
    /\ pc = "find_for"
    /\ IF fnd.i < fnd.max_iter
       THEN /\ fnd' = [FirstTrial(fnd) EXCEPT !.trials = @ + 1,
                                              !.last_xi = FirstTrial(fnd).xi,
                                              !.phase = "trial"]
            /\ loc' = CallLocals(FirstTrial(fnd).xi, fnd.lower)
            /\ pc' = "iterate"
            /\ UNCHANGED exc
       ELSE /\ pc' = "idle"
            /\ UNCHANGED loc
            /\ IF fnd.xi = None
               THEN exc' = "UnboundLocalError" /\ fnd' = [fnd EXCEPT !.phase = "raised"]
               ELSE /\ fnd' = [fnd EXCEPT !.ret = fnd.xi, !.phase = "returned"]
                    /\ UNCHANGED exc
    /\ UNCHANGED <<self, min, result, caller, ncalls, fresh_self, fresh_loc,
                   fresh_result, diverged, env>>
    /\ UNCHANGED data_vars

\* find_ξ, lines 272-288 (and line 290 after the break)
FindTrial ==
    /\ pc = "find_resume"
    /\ fnd.phase = "trial"
    /\ IF TolMet(result.RE, fnd.min_RE, fnd.x, fnd.tol)
       THEN /\ fnd' = [fnd EXCEPT !.RE = result.RE, !.met = TRUE,
                                  !.ret = fnd.xi, !.phase = "returned"]
            /\ pc' = "idle"
       ELSE /\ fnd' = [Bisect(fnd, ErrorNegative(result.RE, fnd.min_RE, fnd.x))
                          EXCEPT !.RE = result.RE, !.count = @ + 1,
                                 !.fails = @ + 1,
                                 !.warned = IF WarnNow(fnd.count + 1, fnd.max_iter)
                                            THEN @ + 1 ELSE @,
                                 !.i = @ + 1, !.phase = "for"]
            /\ pc' = "find_for"
    /\ UNCHANGED <<self, loc, min, result, caller, exc, ncalls, fresh_self,
                   fresh_loc, fresh_result, diverged, env>>
    /\ UNCHANGED data_vars

\* ------------------------------------------------------ the specification
NoData == << >>

\* the solver after construction (lines 79-87), and nothing called yet
InitSolver(tols) ==
    /\ \E tol \in tols : self = NewSolver(None, tol)
    /\ loc = NoLocals
    /\ min = NoMin
    /\ result = NoResult
    /\ fnd = NoFind
    /\ pc = "idle"
    /\ caller = "top"
    /\ exc = "none"
    /\ ncalls = 0
    /\ fresh_self = self
    /\ fresh_loc = NoLocals
    /\ fresh_result = NoResult
    /\ diverged = FALSE

InitNoData ==
    /\ pd_lag = NoData
    /\ n_states = NStates
    /\ pd_lag_indicator = NoData
    /\ pd_indicator = NoData
    /\ P = NoData
    /\ dpc = "none"

Init ==
    /\ InitSolver(SolverTols)
    /\ env = [minimize |-> "any", RE |-> "any", t1 |-> 0, t2 |-> 0]
    /\ InitNoData

\* the steps of iterate
Iterate ==
    \/ IterateEnter
    \/ IterateWhile
    \/ SweepSolve
    \/ MinimizeNext
    \/ SweepStore
    \/ IterateUpdate
    \/ IteratePost

\* the steps of find_ξ
Find ==
    \/ FindMinRE
    \/ FindFor
    \/ FindTrial

\* iterate called on one instance, any result of the minimiser
Next ==
    \/ SetG
    \/ UserIterate
    \/ Iterate

Spec == Init /\ [][Next]_vars

\* find_ξ and iterate called on one instance, the minimiser converging at once
InitFind ==
    /\ InitSolver(SolverTols)
    /\ env = [minimize |-> "converges", RE |-> "any", t1 |-> 0, t2 |-> 0]
    /\ InitNoData

NextFind ==
    \/ SetG
    \/ UserIterate
    \/ UserFind
    \/ Iterate
    \/ Find

SpecFind == InitFind /\ [][NextFind]_vars

\* find_ξ called once on a new instance, the relative entropy a nonincreasing
\* function of ξ drawn at the start
Thresholds == {t * (XiOne \div 4) : t \in 0..5} \cup {Xi100 + 1}

InitMono ==
    /\ InitSolver({0})
    /\ \E t1, t2 \in Thresholds :
          /\ t1 <= t2
          /\ env = [minimize |-> "converges", RE |-> "mono", t1 |-> t1, t2 |-> t2]
    /\ InitNoData

\* the first call made on the instance is a call of find_ξ
FirstFind == ncalls = 0 /\ UserFind

NextMono ==
    \/ SetG
    \/ FirstFind
    \/ Iterate
    \/ Find

SpecMono == InitMono /\ [][NextMono]_vars

\* ------------------------------------------------- the state indicators
RECURSIVE Insert(_, _)
Insert(s, x) ==
    IF s = << >> THEN <<x>>
    ELSE IF x <= Head(s) THEN <<x>> \o s
    ELSE <<Head(s)>> \o Insert(Tail(s), x)

RECURSIVE Sort(_)
Sort(s) == IF s = << >> THEN << >> ELSE Insert(Sort(Tail(s)), Head(s))

\* np.quantile(a, i/n), times n: linear interpolation between the two order
\* statistics around the position (i/n)*(len(a)-1)
Quantile(a, i, n) ==
    LET sorted == Sort(a)
        pos == i * (Len(a) - 1)
        lo == pos \div n
        r == pos % n
    IN  IF r = 0 THEN n * sorted[lo + 1]
        ELSE n * sorted[lo + 1] + r * (sorted[lo + 2] - sorted[lo + 1])

\* line 62: tercile[i], times n_states, for i = 0..n_states
Tercile(a, n) == [i \in 0..n |-> Quantile(a, i, n)]

\* lines 63-65: (pd_lag >= tercile[i]) & (pd_lag <= tercile[i+1])
Indicator(a, n) ==
    [t \in 1..Len(a) |->
        [i \in 1..n |-> /\ n * a[t] >= Tercile(a, n)[i - 1]
                        /\ n * a[t] <= Tercile(a, n)[i]]]

\* line 68: pd_lag_indicator[1:]
DropFirst(ind) == [t \in 1..(Len(ind) - 1) |-> ind[t + 1]]
\* line 72: pd_lag_indicator[:-1]
DropLast(ind) == [t \in 1..(Len(ind) - 1) |-> ind[t]]

\* line 192: np.mean(self.pd_indicator[self.pd_lag_indicator[:,i-1]][:,j-1]),
\* as the number of true entries over the number of rows averaged
MeanNext(lag_ind, ind, i, j) ==
    [num |-> Cardinality({t \in DOMAIN lag_ind : lag_ind[t][i] /\ ind[t][j]}),
     den |-> Cardinality({t \in DOMAIN lag_ind : lag_ind[t][i]})]

DataSets == UNION {[1..m -> 1..MaxVal] : m \in 2..MaxObs}

\* the column d.p as read from the file (lines 53-54), n_states as passed
InitData ==
    /\ pd_lag \in DataSets
    /\ n_states \in 2..MaxDataStates
    /\ pd_lag_indicator = NoData
    /\ pd_indicator = NoData
    /\ P = NoData
    /\ dpc = "read"

\* __init__, lines 60-72
Construct ==
    /\ dpc = "read"
    /\ pd_indicator' = DropFirst(Indicator(pd_lag, n_states))
    /\ pd_lag_indicator' = DropLast(Indicator(pd_lag, n_states))
    /\ dpc' = "built"
    /\ UNCHANGED <<pd_lag, n_states, P>>
    /\ UNCHANGED solver_vars

\* iterate, lines 188-192: the empirical transition matrix
TransitionMatrix ==
    /\ dpc = "built"
    /\ P' = [i \in 1..n_states |->
                [j \in 1..n_states |-> MeanNext(pd_lag_indicator, pd_indicator, i, j)]]
    /\ dpc' = "matrix"
    /\ UNCHANGED <<pd_lag, n_states, pd_lag_indicator, pd_indicator>>
    /\ UNCHANGED solver_vars

NextData ==
    \/ Construct
    \/ TransitionMatrix

InitConstruct ==
    /\ InitSolver({0})
    /\ env = [minimize |-> "any", RE |-> "any", t1 |-> 0, t2 |-> 0]
    /\ InitData

SpecData == InitConstruct /\ [][NextData]_vars

\* ================================================================ claims

\* C1: with g unset, iterate raises at once: the call ends with the
\* configuration error, no solve is run and no field of the instance
\* changes; in find_ξ this happens on the first call of iterate, before any
\* trial.
C1_FailsBeforeAnyChange ==
    [][(pc = "iterate" /\ self.g = None) =>
          /\ pc' = "idle"
          /\ exc' = "Exception"
          /\ self' = self
          /\ min' = min
          /\ loc'.solves = 0
          /\ caller = "find" =>
                (fnd.phase = "min_RE" /\ fnd.trials = 0 /\ fnd' = fnd)]_vars

\* a call of find_ξ has failed so, on an instance an earlier call left its
\* fields on
C1_Witness ==
    /\ pc = "idle"
    /\ exc = "Exception"
    /\ caller = "find"
    /\ self.eps # None
    /\ self.e # NoneVec

C3_TrialsAndWarning ==
    (fnd.phase # "none" /\ fnd.max_iter >= 1) =>
        /\ fnd.inits = 1
        /\ fnd.trials <= fnd.max_iter
        /\ fnd.fails <= fnd.trials
        /\ fnd.warned = (IF fnd.fails = fnd.max_iter THEN 1 ELSE 0)
        /\ fnd.met => fnd.phase = "returned"
        /\ fnd.phase = "returned" =>
              /\ exc = "none"
              /\ fnd.ret # None
              /\ fnd.trials = (IF fnd.met THEN fnd.fails + 1 ELSE fnd.fails)
              /\ ~fnd.met => fnd.fails = fnd.max_iter

\* the cap was reached after several trials and find_ξ returned
C3_Witness ==
    /\ fnd.phase = "returned"
    /\ fnd.max_iter = MaxIter
    /\ fnd.fails = MaxIter
    /\ fnd.warned = 1

\* the ξ of the bisection lies in (0, upper_bound], between the bounds
XiWithinBounds ==
    /\ 0 < fnd.xi
    /\ fnd.xi <= fnd.ub0
    /\ fnd.lower_bound <= fnd.xi
    /\ fnd.xi <= fnd.upper_bound

\* C4 as stated: for every positive upper_bound, every ξ tried or returned
\* lies in (0, upper_bound], between the current bounds.
C4_XiInInterval ==
    fnd.xi # None => XiWithinBounds

\* C4 amended: the same for every upper_bound >= 1, the first trial value.
C4_XiInIntervalFromOne ==
    (fnd.xi # None /\ fnd.ub0 >= XiOne) => XiWithinBounds

\* the cap was reached with both bounds moved
C4_Witness ==
    /\ fnd.phase = "returned"
    /\ fnd.ub0 >= XiOne
    /\ fnd.fails = MaxIter
    /\ fnd.lower_bound > 0
    /\ fnd.upper_bound < fnd.ub0

\* the entropy ratio at ξ against the target: RE(ξ)/min_RE <= x_min_RE, >=
RatioAtMost(xi) == REof(env, xi) <= fnd.x * fnd.min_RE
RatioAtLeast(xi) == REof(env, xi) >= fnd.x * fnd.min_RE

\* C5 as stated: the ratio at lower_bound <= target <= the ratio at
\* upper_bound, from the start of the bisection on.
C5_BracketAsStated ==
    fnd.lower_bound # None =>
        (RatioAtMost(fnd.lower_bound) /\ RatioAtLeast(fnd.upper_bound))

\* C5 amended: the bracket is the other way round, and holds for a bound
\* once the search has set it: the ratio at a raised lower_bound is >= the
\* target, and the ratio at upper_bound is <= the target when the ratio at
\* the caller's upper_bound is.
C5_BracketReversed ==
    fnd.lower_bound # None =>
        /\ fnd.lower_bound > 0 => RatioAtLeast(fnd.lower_bound)
        /\ RatioAtMost(fnd.ub0) => RatioAtMost(fnd.upper_bound)
        /\ fnd.upper_bound # fnd.ub0 => RatioAtMost(fnd.upper_bound)

\* both bounds have been moved, and the ratio is not constant between them
C5_Witness ==
    /\ fnd.lower_bound # None
    /\ fnd.lower_bound > 0
    /\ fnd.upper_bound < fnd.ub0
    /\ REof(env, fnd.lower_bound) > REof(env, fnd.upper_bound)

\* the number of true entries of a row of indicators
TrueCount(row) == Cardinality({i \in DOMAIN row : row[i]})

\* C6: every retained observation has exactly one true entry in its
\* current-state row and exactly one in its next-state row.
C6_ExactlyOneState ==
    dpc # "read" =>
        \A t \in DOMAIN pd_lag_indicator :
            /\ TrueCount(pd_lag_indicator[t]) = 1
            /\ TrueCount(pd_indicator[t]) = 1

\* the sum over j = 1..n of the counts of row i of P
RECURSIVE RowCount(_, _)
RowCount(row, n) == IF n = 0 THEN 0 ELSE row[n].num + RowCount(row, n - 1)

\* C7: when every state has a row, every row of P sums to 1: the counts over
\* j add up to the number of rows in state i.
C7_RowsSumToOne ==
    (dpc = "matrix" /\ \A i \in 1..n_states : P[i][1].den >= 1) =>
        \A i \in 1..n_states : RowCount(P[i], n_states) = P[i][1].den

\* C8: the methods are tried in the order L-BFGS-B, BFGS, CG, each from the
\* all-ones vector, a next one only after a failure; the loop ends at the
\* first success or after CG, the result kept is the last attempt's, the
\* warning is printed exactly when all three failed, and the result is
\* stored for the state and the sweep goes on.
C8_FirstSuccessOrLast ==
    [][/\ pc' = "minimize" =>
            /\ min'.m = (IF pc = "for" THEN 1 ELSE min.m + 1)
            /\ min'.m <= 3
            /\ min'.method = <<"L-BFGS-B", "BFGS", "CG">>[min'.m]
            /\ min'.x0 = [i \in 1..n_f |-> 1]
            /\ pc = "minimize" => ~min.model.success
       /\ (pc = "minimize" /\ pc' # "minimize") =>
            /\ min.model.success \/ min.m = 3
            /\ min.warned = (min.m = 3 /\ ~min.model.success)
            /\ loc'.v[self.state] = Exp(min.model.fun)
            /\ loc'.lam[self.state] = min.model.x
            /\ pc' = "for"
            /\ exc' = "none"
            /\ loc'.k = self.state + 1
       /\ (pc = "minimize" /\ pc' = "minimize") => ~min.warned]_vars

\* all three methods failed for state 2, after the solve for state 1
C8_Witness ==
    /\ pc = "minimize"
    /\ min.m = 3
    /\ min.warned
    /\ self.state = 2
    /\ loc.v[1] # 0

\* what holds when the while loop of iterate has been left
SweepFacts ==
    /\ loc.count >= 1
    /\ loc.solves = loc.count * NStates
    /\ loc.swept = [k \in 1..NStates |-> [state |-> k, e |-> loc.e_old]]
    /\ self.eps = loc.v[1]
    /\ self.e = Normalise(loc.v)
    /\ loc.error = MaxAbsDiff(self.e, loc.e_old)

\* the dictionary returned carries the number of sweeps
CountReturned ==
    (pc = "idle" /\ result # NoResult) =>
        (result.count = loc.count /\ loc.solves = result.count * NStates)

\* C9 as stated: for every tolerance, iterate leaves its loop only after at
\* least one full sweep over the states in order, each solve using the e of
\* the previous sweep, and a last sweep with error <= tolerance; count is the
\* number of sweeps.
C9_SweepsAsStated ==
    /\ pc = "post" =>
          (SweepFacts /\ loc.error # NaN /\ loc.error <= self.tol)
    /\ CountReturned

\* C9 amended: the same for every tolerance below the initial error 1., the
\* last sweep being one whose error is not greater than the tolerance
\* (error <= tolerance, or error is NaN).
C9_SweepsBelowOne ==
    /\ (pc = "post" /\ Gt(EDen, self.tol)) =>
          (SweepFacts /\ ~Gt(loc.error, self.tol))
    /\ (pc \in {"for", "minimize"} /\ Gt(EDen, self.tol)) =>
          \A j \in 1..Len(loc.swept) :
              loc.swept[j] = [state |-> j, e |-> self.e]
    /\ CountReturned

\* the loop is left after a second sweep
C9_Witness ==
    /\ pc = "post"
    /\ loc.count = 2
    /\ loc.error # NaN
    /\ loc.e_old # Ones(NStates)

\* C10: a call of iterate on an instance with a history reads what the same
\* call on a fresh instance reads, and returns what it returns: the first
\* sweep starts from e = ones with v and λ zero, and ξ, lower and state are
\* overwritten before the first solve.
C10_HistoryIndependent ==
    /\ ~diverged
    /\ (pc = "idle" /\ result # NoResult) => result = fresh_result
    /\ (pc \in {"for", "minimize"} /\ loc.count = 0) =>
          /\ self.e = Ones(NStates)
          /\ self.xi = loc.xi
          /\ self.lower = loc.lower
          /\ \A i \in loc.k..NStates : loc.v[i] = 0 /\ loc.lam[i] = 0
          /\ (pc = "for" /\ loc.k > 1) => self.state = loc.k - 1
          /\ pc = "minimize" => self.state = loc.k
    /\ pc \in {"while", "for", "minimize", "post"} => loc = fresh_loc
    /\ (pc \in {"while", "post"} /\ loc.count >= 1) => self = fresh_self

\* the second call on an instance has made its first solve; the instance
\* still holds the ϵ of the first call, the fresh one has none
C10_Witness ==
    /\ ncalls = 2
    /\ pc = "for"
    /\ loc.count = 0
    /\ loc.k = 2
    /\ self.eps # None
    /\ fresh_self.eps = None
    /\ ~diverged

====
